---------------------------- MODULE Spec2Model ----------------------------
(***************************************************************************)
(* Orca shader transpiler (Source/Renderer/ShaderTranspiler.cpp).         *)
(*                                                                         *)
(* Shader text is a sequence of lexemes.  A lexeme is a maximal run of    *)
(* word characters (an identifier, keyword or number), one punctuation    *)
(* mark, the directive "#version", or one whitespace character (" " or    *)
(* "\n").  The regular expressions of the source are matched on lexemes:  *)
(* \w+ and \b...\b are one word lexeme, \d+ one number lexeme, \s one     *)
(* whitespace lexeme.  No lexeme of the vocabulary holds a pattern        *)
(* literal as a proper substring, so std::string::find of a literal is    *)
(* membership of that lexeme.                                              *)
(***************************************************************************)
EXTENDS Integers, Sequences, FiniteSets, TLC

(***************************************************************************)
(* Bounds of the model.                                                    *)
(***************************************************************************)
\* lines per source handed to the facade
MaxSrcLines == 2
\* lines per source handed to the HLSL converter
MaxHlslLines == 3

(***************************************************************************)
(* Lexemes.                                                                *)
(***************************************************************************)
SP == " "
NL == "\n"
IsWs(l) == l \in {SP, NL}
Punct == {";", "{", "}", "(", ")", "=", "*", ".", ",", ":", "//", "[[", "]]",
          "#version"}
IsWord(l) == l # "" /\ ~IsWs(l) /\ l \notin Punct
Digits == {"0", "1", "2", "3", "11", "330", "450"}
IsDigits(l) == l \in Digits

Contains(s, l) == \E i \in 1..Len(s) : s[i] = l

\* the element of a one-element set: The({e(x) : x \in {v}}) is e(v), with v
\* computed once
The(S) == CHOOSE x \in S : TRUE

\* the lexeme at position i, or the empty string past the end of the text
At(s, i) == IF i >= 1 /\ i <= Len(s) THEN s[i] ELSE ""

\* \s* from position i: the first position at or after i that is no whitespace
RECURSIVE SkipWs(_, _)
SkipWs(s, i) == IF i <= Len(s) /\ IsWs(s[i]) THEN SkipWs(s, i + 1) ELSE i

\* the characters [\w\d\(\).]+ from position i: first position past the run
RECURSIVE SkipOperand(_, _)
SkipOperand(s, i) ==
    IF i <= Len(s) /\ (IsWord(s[i]) \/ s[i] \in {"(", ")", "."})
    THEN SkipOperand(s, i + 1) ELSE i

\* the last newline of the whitespace run s[i..j-1], or 0 when it has none
RECURSIVE LastNl(_, _, _)
LastNl(s, i, j) ==
    IF j <= i THEN 0
    ELSE IF s[j - 1] = NL THEN j - 1 ELSE LastNl(s, i, j - 1)


(***************************************************************************)
(* Regular expressions.  Each matcher answers for a match that starts at   *)
(* position i: [end |-> first position past the match, out |-> the text    *)
(* the replacement format puts in its place]; end = 0 is no match.         *)
(***************************************************************************)
NoMatch == [end |-> 0, out |-> <<>>]

\* #version\s+\d+\s*\n   replaced by ""
VersionRegex(s, i) ==
    LET j == SkipWs(s, i + 1)
        k == SkipWs(s, j + 1)
        n == LastNl(s, j + 1, k)
    IN  IF At(s, i) = "#version" /\ j > i + 1 /\ IsDigits(At(s, j)) /\ n > 0
        THEN [end |-> n + 1, out |-> <<>>]
        ELSE NoMatch

\* uniform\s+(\w+)\s+(\w+);   out holds the captures <<type, name>>
uniformRegex(s, i) ==
    LET j == SkipWs(s, i + 1)
        k == SkipWs(s, j + 1)
    IN  IF /\ At(s, i) = "uniform" /\ j > i + 1 /\ IsWord(At(s, j))
           /\ k > j + 1 /\ IsWord(At(s, k)) /\ At(s, k + 1) = ";"
        THEN [end |-> k + 2, out |-> <<s[j], s[k]>>]
        ELSE NoMatch

\* uniform\s+.*?   replaced by "": the lazy .*? takes nothing
UniformStripRegex(s, i) ==
    LET j == SkipWs(s, i + 1)
    IN  IF At(s, i) = "uniform" /\ j > i + 1
        THEN [end |-> j, out |-> <<>>]
        ELSE NoMatch

\* layout\s*\(\s*location\s*=\s*(\d+)\s*\)\s*in\s+(\w+)\s+(\w+);
\* out holds the captures <<location, type, name>>
attrRegex(s, i) ==
    LET a == SkipWs(s, i + 1)
        b == SkipWs(s, a + 1)
        c == SkipWs(s, b + 1)
        d == SkipWs(s, c + 1)
        e == SkipWs(s, d + 1)
        f == SkipWs(s, e + 1)
        g == SkipWs(s, f + 1)
        h == SkipWs(s, g + 1)
    IN  IF /\ At(s, i) = "layout" /\ At(s, a) = "(" /\ At(s, b) = "location"
           /\ At(s, c) = "=" /\ IsDigits(At(s, d)) /\ At(s, e) = ")"
           /\ At(s, f) = "in" /\ g > f + 1 /\ IsWord(At(s, g))
           /\ h > g + 1 /\ IsWord(At(s, h)) /\ At(s, h + 1) = ";"
        THEN [end |-> h + 2, out |-> <<s[d], s[g], s[h]>>]
        ELSE NoMatch

\* layout...in T name;   replaced by "$2 $3 : TEXCOORD$1;"
AttrHlslRegex(s, i) ==
    LET m == attrRegex(s, i)
    IN  IF m.end = 0 THEN NoMatch
        ELSE [end |-> m.end,
              out |-> <<m.out[2], SP, m.out[3], SP, ":", SP,
                        "TEXCOORD" \o m.out[1], ";">>]

\* layout...in T name;   replaced by "$2 $3 [[attribute($1)]];"
AttrMetalRegex(s, i) ==
    LET m == attrRegex(s, i)
    IN  IF m.end = 0 THEN NoMatch
        ELSE [end |-> m.end,
              out |-> <<m.out[2], SP, m.out[3], SP, "[[", "attribute", "(",
                        m.out[1], ")", "]]", ";">>]

\* \bout\s+(\w+)\s+(\w+);   replaced by "$1 $2 [[user(locn0)]];"
VaryingMetalRegex(s, i) ==
    LET j == SkipWs(s, i + 1)
        k == SkipWs(s, j + 1)
    IN  IF /\ At(s, i) = "out" /\ j > i + 1 /\ IsWord(At(s, j))
           /\ k > j + 1 /\ IsWord(At(s, k)) /\ At(s, k + 1) = ";"
        THEN [end |-> k + 2,
              out |-> <<s[j], SP, s[k], SP, "[[", "user", "(", "locn0", ")", "]]", ";">>]
        ELSE NoMatch

\* \b<kw>\s+(\w+)\s+(\w+);   (kw is out or in) replaced by "$1 $2 : TEXCOORD0;"
VaryingRegex(kw, s, i) ==
    LET j == SkipWs(s, i + 1)
        k == SkipWs(s, j + 1)
    IN  IF /\ At(s, i) = kw /\ j > i + 1 /\ IsWord(At(s, j))
           /\ k > j + 1 /\ IsWord(At(s, k)) /\ At(s, k + 1) = ";"
        THEN [end |-> k + 2,
              out |-> <<s[j], SP, s[k], SP, ":", SP, "TEXCOORD0", ";">>]
        ELSE NoMatch

\* (\w+)\s*\*\s*([\w\d\(\).]+)   replaced by "mul($1, $2)"
mathRegex(s, i) ==
    LET j == SkipWs(s, i + 1)
        k == SkipWs(s, j + 1)
        e == SkipOperand(s, k)
    IN  IF IsWord(At(s, i)) /\ At(s, j) = "*" /\ e > k
        THEN [end |-> e,
              out |-> <<"mul", "(", s[i], ",", SP>> \o SubSeq(s, k, e - 1) \o <<")">>]
        ELSE NoMatch

RegexAt(pat, s, i) ==
    CASE pat = "version" -> VersionRegex(s, i)
      [] pat = "uniform" -> uniformRegex(s, i)
      [] pat = "uniformStrip" -> UniformStripRegex(s, i)
      [] pat = "attrHlsl" -> AttrHlslRegex(s, i)
      [] pat = "attrMetal" -> AttrMetalRegex(s, i)
      [] pat = "outMetal" -> VaryingMetalRegex(s, i)
      [] pat = "out" -> VaryingRegex("out", s, i)
      [] pat = "in" -> VaryingRegex("in", s, i)
      [] pat = "mul" -> mathRegex(s, i)

\* One step of the left-to-right scan both std::regex_replace and the
\* regex_search loop make, at position i: a match there gives its out and
\* the scan goes on past it; otherwise the lexeme at i is passed over
\* (copied to the output when copy is set) and the scan goes on at i + 1.
ScanStep(pat, s, i, copy) ==
    IF i > Len(s) THEN [out |-> <<>>, pos |-> i]
    ELSE The({ IF m.end > 0 THEN [out |-> m.out, pos |-> m.end]
               ELSE [out |-> IF copy THEN <<s[i]>> ELSE <<>>, pos |-> i + 1]
               : m \in {RegexAt(pat, s, i)} })

\* k steps of the scan from position i: the first half of them, then the rest
RECURSIVE Scan(_, _, _, _, _)
Scan(pat, s, i, k, copy) ==
    IF k <= 1 THEN ScanStep(pat, s, i, copy)
    ELSE The({ The({ [out |-> a.out \o b.out, pos |-> b.pos]
                     : b \in {Scan(pat, s, a.pos, k - (k \div 2), copy)} })
               : a \in {Scan(pat, s, i, k \div 2, copy)} })

\* std::regex_replace: every non-overlapping match, left to right, replaced;
\* the text between matches copied
regex_replace(text, pat) == The({Scan(pat, s, 1, Len(s), TRUE).out : s \in {text}})

\* std::regex_replace of \b<word>\b for each pair of a word table
ReplaceWords(text, table) ==
    The({ [i \in 1..Len(s) |-> IF s[i] \in DOMAIN table THEN table[s[i]] ELSE s[i]]
          : s \in {text} })

(***************************************************************************)
(* Declaration extractor.                                                  *)
(***************************************************************************)
\* the captures <<type, name>> of each match of the regex_search loop, in the
\* order found, as one flat list
UniformCaptures(glslSource) ==
    The({Scan("uniform", s, 1, Len(s), FALSE).out : s \in {glslSource}})

\* the list of UniformBinding: the k-th found is pushed when the list holds
\* k - 1 bindings
ExtractUniforms(glslSource) ==
    The({ [k \in 1..(Len(c) \div 2) |->
             [type |-> c[2 * k - 1], name |-> c[2 * k], binding |-> k - 1, set |-> 0]]
          : c \in {UniformCaptures(glslSource)} })

(***************************************************************************)
(* HLSL conversion steps.                                                  *)
(***************************************************************************)
HlslUniformType(type) ==
    IF type = "vec2" THEN "float2"
    ELSE IF type = "vec3" THEN "float3"
    ELSE IF type = "vec4" THEN "float4"
    ELSE IF type = "mat3" THEN "float3x3"
    ELSE IF type = "mat4" THEN "float4x4"
    ELSE type

CbufferHeader == <<"cbuffer", SP, "Uniforms", SP, ":", SP, "register", "(", "b0", ")", NL, "{", NL>>

CbufferMember(uniform) ==
    <<SP, SP, SP, SP, HlslUniformType(uniform.type), SP, uniform.name, ";", NL>>

RECURSIVE CbufferMembers(_)
CbufferMembers(uniforms) ==
    IF uniforms = <<>> THEN <<>>
    ELSE CbufferMember(Head(uniforms)) \o CbufferMembers(Tail(uniforms))

StripUniforms(source) == regex_replace(source, "uniformStrip")

ConvertUniformDeclarations(source, target) ==
    IF target # "HLSL" THEN source
    ELSE The({ IF uniforms = <<>> THEN source
               ELSE CbufferHeader \o CbufferMembers(uniforms) \o StripUniforms(source)
               : uniforms \in {ExtractUniforms(source)} })

ConvertAttributeDeclarations(source, target, stage) ==
    IF stage # "Vertex" THEN source
    ELSE IF target = "HLSL" THEN regex_replace(source, "attrHlsl")
    ELSE IF target = "Metal" THEN regex_replace(source, "attrMetal")
    ELSE source

ConvertVaryingDeclarations(source, target, stage) ==
    IF target = "HLSL"
    THEN IF stage = "Vertex" THEN regex_replace(source, "out")
         ELSE regex_replace(source, "in")
    ELSE IF target = "Metal" /\ stage = "Vertex"
    THEN regex_replace(source, "outMetal")
    ELSE source

BuiltinTable ==
    [w \in {"mat3", "mat4", "vec2", "vec3", "vec4"} |-> HlslUniformType(w)]

ConvertBuiltinFunctions(source, target) ==
    IF target \in {"HLSL", "Metal"} THEN ReplaceWords(source, BuiltinTable)
    ELSE source

ConvertMatrixOperations(source, target) ==
    IF target # "HLSL" THEN source ELSE regex_replace(source, "mul")

ReplaceGLSLBuiltins(source, target, stage) ==
    IF target = "HLSL"
    THEN IF stage = "Vertex"
         THEN ReplaceWords(source, [w \in {"gl_Position"} |-> "position"])
         ELSE ReplaceWords(source, [w \in {"gl_FragColor"} |-> "output"])
    ELSE IF target = "Metal"
    THEN IF stage = "Vertex"
         THEN ReplaceWords(source, [w \in {"gl_Position"} |-> "out.position"])
         ELSE ReplaceWords(source, [w \in {"gl_FragColor"} |-> "out.color"])
    ELSE source

GetTargetVersionString(target) ==
    CASE target = "GLSL" -> <<"#version", SP, "330", SP, "core">>
      [] target = "HLSL" ->
           <<"//", SP, "HLSL", SP, "Shader", SP, "(", "Target", ":", SP,
             "Direct3D", SP, "11", ")">>
      [] target = "Vulkan" -> <<"#version", SP, "450", SP, "core">>
      [] target = "Metal" -> <<"//", SP, "Metal", SP, "Shader", SP, "Language">>

\* the raw-string literal of the placeholder inverse function
InversePlaceholder ==
    <<NL, "float4x4", SP, "inverse", "(", "float4x4", SP, "m", ")", SP, "{", NL,
      "return", SP, "m", ";", NL, "}">>

\* the text of TranspileToHLSL up to the line that prepends the placeholder
HlslConverted(glslSource, stage) ==
    ReplaceGLSLBuiltins(
      ConvertMatrixOperations(
        ConvertBuiltinFunctions(
          ConvertVaryingDeclarations(
            ConvertAttributeDeclarations(
              The({ ConvertUniformDeclarations(cleanedSource, "HLSL")
                    : cleanedSource \in {regex_replace(glslSource, "version")} }),
              "HLSL", stage),
            "HLSL", stage),
          "HLSL"),
        "HLSL"),
      "HLSL", stage)

\* hlsl.find("inverse") on the banner line, the text the source searches
NeedsInverse(converted) ==
    Contains(GetTargetVersionString("HLSL") \o <<NL>>, "inverse")

\* the generated HLSL text written to validate.hlsl
HlslText(glslSource, stage) ==
    LET converted == HlslConverted(glslSource, stage)
        banner == GetTargetVersionString("HLSL") \o <<NL>>
    IN  (IF NeedsInverse(converted) THEN InversePlaceholder ELSE <<>>)
        \o banner \o converted

\* the text TranspileToVulkan writes to temp_input.glsl
VulkanText(glslSource) ==
    <<"#version", SP, "450", SP, "core", NL, NL>> \o glslSource


(***************************************************************************)
(* Sources: a source is a list of lines, each ended by a newline.          *)
(***************************************************************************)
RECURSIVE JoinLines(_)
JoinLines(lines) ==
    IF lines = <<>> THEN <<>>
    ELSE Head(lines) \o <<NL>> \o JoinLines(Tail(lines))

SeqsUpTo(S, n) == UNION {[1..k -> S] : k \in 0..n}

FacadeLines == {<<"{">>, <<"}">>}
FacadeSources == {JoinLines(ls) : ls \in SeqsUpTo(FacadeLines, MaxSrcLines)}

HlslLines ==
    { <<"uniform", SP, "mat4", SP, "model", ";">>,
      <<"uniform", SP, "float", SP, "time", ";">>,
      <<"void", SP, "main", "(", ")", SP, "{", "}">>,
      <<"mat4", SP, "inv", SP, "=", SP, "inverse", "(", "model", ")", ";">>,
      <<"#version", SP, "330">> }
HlslSources == {JoinLines(ls) : ls \in SeqsUpTo(HlslLines, MaxHlslLines)}

\* the sources that pass the input checks, for two concurrent callers
ConcSources ==
    {s \in FacadeSources : s # <<>> /\ Contains(s, "{") /\ Contains(s, "}")}

(***************************************************************************)
(* State.                                                                  *)
(***************************************************************************)
Threads == {"A", "B"}
Main == "A"
Targets == {"GLSL", "HLSL", "Vulkan", "Metal"}
Stages == {"Vertex", "Fragment"}
Paths == {"validate.hlsl", "temp_input.glsl", "temp_input.spv",
          "temp_vulkan.spv", "temp_output.metal"}

VARIABLES
    sdkSet,     \* whether the environment sets VULKAN_SDK
    cacheDir,   \* whether the directory Saved/ShaderCache exists
    files,      \* the content of each file of Saved/ShaderCache
    pc,         \* each caller's position in the code
    call,       \* each caller's arguments: api, target, stage, src, vsrc, fsrc
    res,        \* the TranspilationResult of the caller's Transpile in progress
    vres,       \* vertResult of TranspileProgram, once its Transpile returned
    ret,        \* the result returned to the caller
    hist        \* what the caller's call did so far: files written, tools
                \* run, log events

vars == <<sdkSet, cacheDir, files, pc, call, res, vres, ret, hist>>

Absent == [kind |-> "absent", body |-> <<>>]
Stale == [kind |-> "stale", body |-> <<>>]
TextFile(text) == [kind |-> "text", body |-> text]

Result(success, output, binary, errorMessage) ==
    [success |-> success, output |-> output, binary |-> binary,
     errorMessage |-> errorMessage]
NoResult == Result(FALSE, <<>>, <<>>, "<none>")
NoCall == [api |-> "none", target |-> "GLSL", stage |-> "Vertex",
           src |-> <<>>, vsrc |-> <<>>, fsrc |-> <<>>]

Event(kind, what, stage, exit, read) ==
    [kind |-> kind, what |-> what, stage |-> stage, exit |-> exit, read |-> read]

(***************************************************************************)
(* The external tools.  A tool whose input file does not exist fails; any  *)
(* other run may exit with zero or not.  A run that exits with zero has    *)
(* written its output file, a function of the input it read.               *)
(***************************************************************************)
ToolExits(input) == IF input.kind = "absent" THEN {1} ELSE {0, 1}
Glslang(input) == [kind |-> "spv", body |-> input.body]
SpirvCross(input) == [kind |-> "metal", body |-> <<input.kind>> \o input.body]

\* the 32-bit words of a SPIR-V file: its header, then its body
SpirvWords(file) == <<"SPIRV">> \o file.body
\* the characters of a text file; an ifstream that failed to open reads none
ReadText(file) == IF file.kind = "absent" THEN <<>> ELSE <<file.kind>> \o file.body

Init ==
    /\ sdkSet \in BOOLEAN
    /\ cacheDir \in BOOLEAN
    /\ \E old \in {Absent, Stale} :
          /\ (~cacheDir => old = Absent)
          /\ files = [p \in Paths |-> IF p = "temp_vulkan.spv" THEN old ELSE Absent]
    /\ pc = [t \in Threads |-> "idle"]
    /\ call = [t \in Threads |-> NoCall]
    /\ res = [t \in Threads |-> NoResult]
    /\ vres = [t \in Threads |-> NoResult]
    /\ ret = [t \in Threads |-> NoResult]
    /\ hist = [t \in Threads |-> <<>>]

(***************************************************************************)
(* Transpile: validation and dispatch.                                     *)
(***************************************************************************)
ExceptionResult == Result(FALSE, <<>>, <<>>, "Transpilation exception: ")

\* ValidateSource with the brace check failing only when both are missing
ValidateSourceBothMissing(glslSource) ==
    IF glslSource = <<>>
    THEN Result(FALSE, <<>>, <<>>, "Input shader source is empty")
    ELSE IF ~Contains(glslSource, "{") /\ ~Contains(glslSource, "}")
    THEN Result(FALSE, <<>>, <<>>,
                "ERROR: Missing curly braces in shader source. Please fix the problem.")
    ELSE NoResult

\* the early returns of Transpile, or NoResult when the source passes
ValidateSource(glslSource) ==
    IF glslSource = <<>>
    THEN Result(FALSE, <<>>, <<>>, "Input shader source is empty")
    ELSE IF ~Contains(glslSource, "{") \/ ~Contains(glslSource, "}")
    THEN Result(FALSE, <<>>, <<>>,
                "ERROR: Missing curly braces in shader source. Please fix the problem.")
    ELSE NoResult

\* where Transpile goes from its entry
DispatchPc(glslSource, target) ==
    IF ValidateSource(glslSource) # NoResult THEN "return"
    ELSE CASE target = "GLSL" -> "log"
           [] target = "HLSL" -> "hlsl_write"
           [] target = "Vulkan" -> "vk_write"
           [] target = "Metal" -> "vk_write"

\* DispatchRes with the GLSL case putting the version line before the source
DispatchResWithHeader(glslSource, target) ==
    IF ValidateSource(glslSource) # NoResult THEN ValidateSource(glslSource)
    ELSE IF target = "GLSL"
    THEN Result(TRUE, GetTargetVersionString("GLSL") \o <<NL>> \o glslSource, <<>>, "")
    ELSE NoResult

DispatchRes(glslSource, target) ==
    IF ValidateSource(glslSource) # NoResult THEN ValidateSource(glslSource)
    ELSE IF target = "GLSL" THEN Result(TRUE, glslSource, <<>>, "")
    ELSE NoResult

\* entry of Transpile(glslSource, target, stage) on caller t
TranspileEnter(t, glslSource, target) ==
    /\ pc' = [pc EXCEPT ![t] = DispatchPc(glslSource, target)]
    /\ res' = [res EXCEPT ![t] = DispatchRes(glslSource, target)]

CallTranspile(t, sources, targets) ==
    /\ pc[t] = "idle"
    /\ \E glslSource \in sources, target \in targets, stage \in Stages :
          /\ call' = [call EXCEPT ![t] =
                 [api |-> "Transpile", target |-> target, stage |-> stage,
                  src |-> glslSource, vsrc |-> <<>>, fsrc |-> <<>>]]
          /\ TranspileEnter(t, glslSource, target)
    /\ UNCHANGED <<sdkSet, cacheDir, files, vres, ret, hist>>

CallTranspileProgram(t, sources, targets) ==
    /\ pc[t] = "idle"
    /\ \E vertexSource \in sources, fragmentSource \in sources, target \in targets :
          /\ call' = [call EXCEPT ![t] =
                 [api |-> "TranspileProgram", target |-> target, stage |-> "Vertex",
                  src |-> vertexSource, vsrc |-> vertexSource,
                  fsrc |-> fragmentSource]]
          /\ TranspileEnter(t, vertexSource, target)
    /\ UNCHANGED <<sdkSet, cacheDir, files, vres, ret, hist>>

(***************************************************************************)
(* TranspileToHLSL.                                                        *)
(***************************************************************************)
\* WriteFile with a stream that never opens
WriteFileUnopened(t, path, text) == UNCHANGED <<files, hist>>

\* ofstream on the fixed path: the text replaces the file's content when the
\* stream opens, and nothing is written when it does not
WriteFile(t, path, text) ==
    IF cacheDir
    THEN /\ files' = [files EXCEPT ![path] = TextFile(text)]
         /\ hist' = [hist EXCEPT ![t] =
                Append(@, Event("write", path, call[t].stage, 0, TextFile(text)))]
    ELSE UNCHANGED <<files, hist>>

HlslResult(exit, hlsl) ==
    IF exit # 0
    THEN Result(FALSE, hlsl, <<>>, "DXC Validation Failed! Check shader syntax.")
    ELSE Result(TRUE, hlsl, <<>>, "")

HLSLWrite(t) ==
    /\ pc[t] = "hlsl_write"
    /\ WriteFile(t, "validate.hlsl", HlslText(call[t].src, call[t].stage))
    /\ pc' = [pc EXCEPT ![t] = "hlsl_run"]
    /\ UNCHANGED <<sdkSet, cacheDir, call, res, vres, ret>>

\* std::system(dxc -T <profile> -E main validate.hlsl)
HLSLRun(t) ==
    /\ pc[t] = "hlsl_run"
    /\ \E exit \in ToolExits(files["validate.hlsl"]) :
          /\ hist' = [hist EXCEPT ![t] =
                 Append(@, Event("tool", "dxc", call[t].stage, exit,
                                 files["validate.hlsl"]))]
          /\ res' = [res EXCEPT ![t] =
                 HlslResult(exit, HlslText(call[t].src, call[t].stage))]
    /\ pc' = [pc EXCEPT ![t] = "log"]
    /\ UNCHANGED <<sdkSet, cacheDir, files, call, vres, ret>>

(***************************************************************************)
(* TranspileToVulkan, run for the Vulkan target and as the first step of   *)
(* TranspileToMetal.                                                       *)
(***************************************************************************)
\* where the caller of TranspileToVulkan continues
AfterVulkan(t) == IF call[t].target = "Metal" THEN "mtl_check" ELSE "log"

VulkanFailure == Result(TRUE, <<>>, <<>>, "SPIR-V compilation failed!")

VulkanSuccess(output, buffer) ==
    Result(TRUE, output, buffer, "SPIR-V compilation success!")

VulkanWrite(t) ==
    /\ pc[t] = "vk_write"
    /\ WriteFile(t, "temp_input.glsl", VulkanText(call[t].src))
    /\ pc' = [pc EXCEPT ![t] = "vk_run"]
    /\ UNCHANGED <<sdkSet, cacheDir, call, res, vres, ret>>

\* std::system(glslang -V temp_input.glsl -o temp_input.spv)
VulkanRun(t) ==
    /\ pc[t] = "vk_run"
    /\ \E exit \in ToolExits(files["temp_input.glsl"]) :
          /\ hist' = [hist EXCEPT ![t] =
                 Append(@, Event("tool", "glslang", call[t].stage, exit,
                                 files["temp_input.glsl"]))]
          /\ IF exit = 0
             THEN /\ files' = [files EXCEPT !["temp_input.spv"] =
                         Glslang(files["temp_input.glsl"])]
                  /\ pc' = [pc EXCEPT ![t] = "vk_read"]
                  /\ UNCHANGED res
             ELSE /\ res' = [res EXCEPT ![t] = VulkanFailure]
                  /\ pc' = [pc EXCEPT ![t] = AfterVulkan(t)]
                  /\ UNCHANGED files
    /\ UNCHANGED <<sdkSet, cacheDir, call, vres, ret>>

\* the ifstream read of temp_input.spv; with no file tellg() is -1 and the
\* vector's size is out of range, which throws into the facade's catch
VulkanRead(t) ==
    /\ pc[t] = "vk_read"
    /\ IF files["temp_input.spv"].kind = "absent"
       THEN /\ res' = [res EXCEPT ![t] = ExceptionResult]
            /\ pc' = [pc EXCEPT ![t] = "return"]
       ELSE /\ res' = [res EXCEPT ![t] =
                   VulkanSuccess(VulkanText(call[t].src),
                                 SpirvWords(files["temp_input.spv"]))]
            /\ pc' = [pc EXCEPT ![t] = AfterVulkan(t)]
    /\ UNCHANGED <<sdkSet, cacheDir, files, call, vres, ret, hist>>

(***************************************************************************)
(* TranspileToMetal, after its TranspileToVulkan step.                     *)
(***************************************************************************)
MetalFailure == Result(FALSE, <<>>, <<>>, "Metal transpilation failed!")

MetalSuccess(metalSource) ==
    Result(TRUE, metalSource, <<>>, "Metal transpilation success!")

\* whether TranspileToMetal returns vResult instead of going on
MetalReturnsVulkan(vResult) == ~vResult.success

\* if (!vResult.success) return vResult; then std::string(getenv(...)):
\* with the variable unset the string is built from a null pointer, which is
\* undefined: the build either throws std::logic_error or faults
MetalCheck(t) ==
    /\ pc[t] = "mtl_check"
    /\ IF MetalReturnsVulkan(res[t])
       THEN pc' = [pc EXCEPT ![t] = "log"] /\ UNCHANGED res
       ELSE IF sdkSet
       THEN pc' = [pc EXCEPT ![t] = "mtl_run"] /\ UNCHANGED res
       ELSE \E outcome \in {"throw", "fault"} :
               IF outcome = "throw"
               THEN /\ res' = [res EXCEPT ![t] = ExceptionResult]
                    /\ pc' = [pc EXCEPT ![t] = "return"]
               ELSE /\ pc' = [u \in Threads |-> "crashed"]
                    /\ UNCHANGED res
    /\ UNCHANGED <<sdkSet, cacheDir, files, call, vres, ret, hist>>

\* MetalRun with the cross-compiler given the path the assembler wrote
MetalRunOnAssembled(t) ==
    /\ pc[t] = "mtl_run"
    /\ \E exit \in ToolExits(files["temp_input.spv"]) :
          /\ hist' = [hist EXCEPT ![t] =
                 Append(@, Event("tool", "spirv-cross", call[t].stage, exit,
                                 files["temp_input.spv"]))]
          /\ IF exit = 0
             THEN /\ files' = [files EXCEPT !["temp_output.metal"] =
                         SpirvCross(files["temp_input.spv"])]
                  /\ pc' = [pc EXCEPT ![t] = "mtl_read"]
                  /\ UNCHANGED res
             ELSE /\ res' = [res EXCEPT ![t] = MetalFailure]
                  /\ pc' = [pc EXCEPT ![t] = "log"]
                  /\ UNCHANGED files
    /\ UNCHANGED <<sdkSet, cacheDir, call, vres, ret>>

\* std::system(spirv-cross -V temp_vulkan.spv -o temp_output.metal)
MetalRun(t) ==
    /\ pc[t] = "mtl_run"
    /\ \E exit \in ToolExits(files["temp_vulkan.spv"]) :
          /\ hist' = [hist EXCEPT ![t] =
                 Append(@, Event("tool", "spirv-cross", call[t].stage, exit,
                                 files["temp_vulkan.spv"]))]
          /\ IF exit = 0
             THEN /\ files' = [files EXCEPT !["temp_output.metal"] =
                         SpirvCross(files["temp_vulkan.spv"])]
                  /\ pc' = [pc EXCEPT ![t] = "mtl_read"]
                  /\ UNCHANGED res
             ELSE /\ res' = [res EXCEPT ![t] = MetalFailure]
                  /\ pc' = [pc EXCEPT ![t] = "log"]
                  /\ UNCHANGED files
    /\ UNCHANGED <<sdkSet, cacheDir, call, vres, ret>>

MetalRead(t) ==
    /\ pc[t] = "mtl_read"
    /\ res' = [res EXCEPT ![t] = MetalSuccess(ReadText(files["temp_output.metal"]))]
    /\ pc' = [pc EXCEPT ![t] = "log"]
    /\ UNCHANGED <<sdkSet, cacheDir, files, call, vres, ret, hist>>

(***************************************************************************)
(* Transpile: the log event and the return; TranspileProgram.              *)
(***************************************************************************)
LogLevel(result) == IF result.success THEN "Info" ELSE "Error"

TranspileLog(t) ==
    /\ pc[t] = "log"
    /\ hist' = [hist EXCEPT ![t] =
           Append(@, Event("log", LogLevel(res[t]), call[t].stage, 0, Absent))]
    /\ pc' = [pc EXCEPT ![t] = "return"]
    /\ UNCHANGED <<sdkSet, cacheDir, files, call, res, vres, ret>>

\* Transpile returns to the caller of the facade
TranspileReturn(t) ==
    /\ pc[t] = "return"
    /\ call[t].api = "Transpile"
    /\ ret' = [ret EXCEPT ![t] = res[t]]
    /\ pc' = [pc EXCEPT ![t] = "done"]
    /\ UNCHANGED <<sdkSet, cacheDir, files, call, res, vres, hist>>

\* ProgramReturnsStage with the success check left out
ProgramNeverReturnsStage(stageResult) == FALSE

\* whether TranspileProgram returns a stage's result as it is
ProgramReturnsStage(stageResult) == ~stageResult.success

\* the vertex Transpile returns into TranspileProgram
ProgramVertexReturn(t) ==
    /\ pc[t] = "return"
    /\ call[t].api = "TranspileProgram"
    /\ call[t].stage = "Vertex"
    /\ vres' = [vres EXCEPT ![t] = res[t]]
    /\ IF ProgramReturnsStage(res[t])
       THEN /\ ret' = [ret EXCEPT ![t] = res[t]]
            /\ pc' = [pc EXCEPT ![t] = "done"]
            /\ UNCHANGED <<call, res>>
       ELSE /\ call' = [call EXCEPT ![t].stage = "Fragment",
                                    ![t].src = call[t].fsrc]
            /\ TranspileEnter(t, call[t].fsrc, call[t].target)
            /\ UNCHANGED ret
    /\ UNCHANGED <<sdkSet, cacheDir, files, hist>>

CombinedOutput(vertOutput, fragOutput) ==
    <<"//", SP, "===", SP, "VERTEX", SP, "SHADER", SP, "===", NL>> \o vertOutput
    \o <<NL, NL, "//", SP, "===", SP, "FRAGMENT", SP, "SHADER", SP, "===", NL>>
    \o fragOutput

\* ProgramResult with the two binaries combined like the two outputs
ProgramResultWithBinary(vertResult, fragResult) ==
    Result(TRUE, CombinedOutput(vertResult.output, fragResult.output),
           vertResult.binary \o fragResult.binary, "")

ProgramResult(vertResult, fragResult) ==
    Result(TRUE, CombinedOutput(vertResult.output, fragResult.output), <<>>, "")

\* the fragment Transpile returns into TranspileProgram
ProgramFragmentReturn(t) ==
    /\ pc[t] = "return"
    /\ call[t].api = "TranspileProgram"
    /\ call[t].stage = "Fragment"
    /\ ret' = [ret EXCEPT ![t] =
           IF ProgramReturnsStage(res[t]) THEN res[t]
           ELSE ProgramResult(vres[t], res[t])]
    /\ pc' = [pc EXCEPT ![t] = "done"]
    /\ UNCHANGED <<sdkSet, cacheDir, files, call, res, vres, hist>>

(***************************************************************************)
(* Specifications.                                                         *)
(***************************************************************************)
Steps(t) ==
    \/ HLSLWrite(t)
    \/ HLSLRun(t)
    \/ VulkanWrite(t)
    \/ VulkanRun(t)
    \/ VulkanRead(t)
    \/ MetalCheck(t)
    \/ MetalRun(t)
    \/ MetalRead(t)
    \/ TranspileLog(t)
    \/ TranspileReturn(t)
    \/ ProgramVertexReturn(t)
    \/ ProgramFragmentReturn(t)

\* one caller, as the transpiler is used: one call of either entry point
Next ==
    \/ CallTranspile(Main, FacadeSources, Targets)
    \/ CallTranspileProgram(Main, FacadeSources, Targets)
    \/ Steps(Main)

Spec == Init /\ [][Next]_vars

\* one caller of the HLSL target over sources with declarations
NextHlsl ==
    \/ CallTranspile(Main, HlslSources, {"HLSL"})
    \/ HLSLWrite(Main)
    \/ HLSLRun(Main)
    \/ TranspileLog(Main)
    \/ TranspileReturn(Main)

SpecHlsl == Init /\ [][NextHlsl]_vars

\* two callers at once, each one Transpile call of a target with files
InitConc == Init /\ cacheDir /\ sdkSet

NextConc ==
    \E t \in Threads :
        \/ CallTranspile(t, ConcSources, {"HLSL", "Vulkan"})
        \/ HLSLWrite(t)
        \/ HLSLRun(t)
        \/ VulkanWrite(t)
        \/ VulkanRun(t)
        \/ VulkanRead(t)
        \/ TranspileLog(t)
        \/ TranspileReturn(t)

SpecConc == InitConc /\ [][NextConc]_vars

(***************************************************************************)
(* Properties.                                                             *)
(***************************************************************************)
Events(t, kind) == {i \in 1..Len(hist[t]) : hist[t][i].kind = kind}
ToolRuns(t, tool) == {i \in Events(t, "tool") : hist[t][i].what = tool}
StageEvents(t, stage) == {i \in 1..Len(hist[t]) : hist[t][i].stage = stage}
Returned(t, api) == pc[t] = "done" /\ call[t].api = api
WellFormed(src) == src # <<>> /\ Contains(src, "{") /\ Contains(src, "}")
StartsWith(s, prefix) ==
    Len(s) >= Len(prefix) /\ SubSeq(s, 1, Len(prefix)) = prefix
\* whether piece occurs in s as a run of adjacent lexemes
Occurs(s, piece) ==
    \E i \in 1..(Len(s) - Len(piece) + 1) : SubSeq(s, i, i + Len(piece) - 1) = piece

\* C1: a Transpile call whose source is empty, or has no "{", or has no "}",
\* runs no tool and writes no file at any point, and returns success=false
\* with empty output, empty binary and a non-empty message, for every
\* target and stage.
C1_InvalidSourceFails ==
    \A t \in Threads :
        (call[t].api = "Transpile" /\ ~WellFormed(call[t].src)) =>
            /\ Events(t, "tool") = {}
            /\ Events(t, "write") = {}
            /\ pc[t] = "done" =>
                  /\ ret[t].success = FALSE
                  /\ ret[t].output = <<>>
                  /\ ret[t].binary = <<>>
                  /\ ret[t].errorMessage # ""

C1_Witness ==
    /\ Returned(Main, "Transpile")
    /\ call[Main].target = "Vulkan"
    /\ Contains(call[Main].src, "{")
    /\ ~Contains(call[Main].src, "}")
    /\ cacheDir
    /\ ret[Main].success = FALSE

\* C2: whenever a tool run during a Transpile call exits with a non-zero
\* status, the result the call returns has success=false and a non-empty
\* message.
C2_ToolFailureSurfaces ==
    \A t \in Threads :
        (/\ Returned(t, "Transpile")
         /\ \E i \in Events(t, "tool") : hist[t][i].exit # 0) =>
            ret[t].success = FALSE /\ ret[t].errorMessage # ""

\* C3 as stated: Transpile with the GLSL target succeeds with output equal to
\* the source and runs no tool, for every source.
C3_PassthroughAlways ==
    \A t \in Threads :
        (Returned(t, "Transpile") /\ call[t].target = "GLSL") =>
            /\ ret[t].success
            /\ ret[t].output = call[t].src
            /\ Events(t, "tool") = {}

\* C3: Transpile with the GLSL target, on a source that is not empty and
\* holds a "{" and a "}", succeeds with output equal to the source and runs
\* no tool.
C3_PassthroughOfValidSource ==
    \A t \in Threads :
        (/\ Returned(t, "Transpile") /\ call[t].target = "GLSL"
         /\ WellFormed(call[t].src)) =>
            /\ ret[t].success
            /\ ret[t].output = call[t].src
            /\ Events(t, "tool") = {}

C3_Witness ==
    /\ Returned(Main, "Transpile")
    /\ call[Main].target = "GLSL"
    /\ WellFormed(call[Main].src)
    /\ ret[Main].output = call[Main].src
    /\ Events(Main, "log") # {}

\* C4: in TranspileProgram everything the vertex Transpile does comes before
\* anything the fragment Transpile does; a vertex result with success=false
\* is returned as it is and the fragment source is never transpiled (no
\* fragment tool run, file write or log event); after a vertex success, a
\* fragment result with success=false is returned as it is.
C4_ProgramFirstFailure ==
    \A t \in Threads :
        call[t].api = "TranspileProgram" =>
            /\ \A i \in StageEvents(t, "Fragment") :
                  \A j \in StageEvents(t, "Vertex") : j < i
            /\ (pc[t] = "done" /\ ~vres[t].success) =>
                  ret[t] = vres[t] /\ StageEvents(t, "Fragment") = {}
            /\ (pc[t] = "done" /\ vres[t].success /\ ~res[t].success) =>
                  /\ ret[t] = res[t]
                  /\ call[t].stage = "Fragment"
            /\ (StageEvents(t, "Fragment") # {}) =>
                  call[t].stage = "Fragment" /\ vres[t].success

C4_Witness ==
    /\ Returned(Main, "TranspileProgram")
    /\ call[Main].target = "HLSL"
    /\ vres[Main].success
    /\ ~res[Main].success
    /\ ret[Main] = res[Main]
    /\ ret[Main].output = HlslText(call[Main].fsrc, "Fragment")
    /\ ToolRuns(Main, "dxc") \cap StageEvents(Main, "Fragment") # {}

\* C5: in a Metal conversion the cross-compiler is run only after an
\* assembler run of the same Transpile that exited with zero, and a call
\* whose assembler exited non-zero returns the Vulkan step's result.
C5_MetalStopsOnVulkanFailure ==
    \A t \in Threads :
        (call[t].api = "Transpile" /\ call[t].target = "Metal") =>
            /\ \A i \in ToolRuns(t, "spirv-cross") :
                  \E j \in ToolRuns(t, "glslang") : j < i /\ hist[t][j].exit = 0
            /\ (/\ pc[t] = "done"
                /\ \E j \in ToolRuns(t, "glslang") : hist[t][j].exit # 0) =>
                  ret[t] = VulkanFailure

\* C6: every Transpile call emits exactly one log event before it returns:
\* an informational one when the result has success=true, an error-level one
\* when it has success=false.
C6_OneLogEventPerCall ==
    \A t \in Threads :
        Returned(t, "Transpile") =>
            /\ Cardinality(Events(t, "log")) = 1
            /\ \A i \in Events(t, "log") :
                  hist[t][i].what = (IF ret[t].success THEN "Info" ELSE "Error")

\* C7: a result returned by Transpile or TranspileProgram has a non-empty
\* binary only if the target is Vulkan and success is true; every
\* TranspileProgram result has an empty binary.
C7_BinaryOnlyForVulkanSuccess ==
    \A t \in Threads :
        /\ (pc[t] = "return" /\ res[t].binary # <<>>) =>
              call[t].target = "Vulkan" /\ res[t].success
        /\ (pc[t] = "done" /\ ret[t].binary # <<>>) =>
              call[t].target = "Vulkan" /\ ret[t].success
        /\ Returned(t, "TranspileProgram") => ret[t].binary = <<>>

C7_Witness ==
    /\ Returned(Main, "TranspileProgram")
    /\ call[Main].target = "Vulkan"
    /\ ret[Main].success
    /\ vres[Main].binary # <<>>
    /\ res[Main].binary # <<>>
    /\ ret[Main].binary = <<>>

\* C8: when the source holds a declaration "uniform <type> <name>;", the text
\* ConvertUniformDeclarations returns starts with one cbuffer block holding
\* one member per extracted uniform, in order, with its type mapped; the
\* text after the block holds no "uniform" and none of the declarations
\* "<type> <name>;".
C8_UniformsMovedIntoBlock ==
    \A t \in Threads :
        (/\ call[t].api = "Transpile" /\ call[t].target = "HLSL"
         /\ ExtractUniforms(regex_replace(call[t].src, "version")) # <<>>) =>
            LET source == regex_replace(call[t].src, "version")
                uniforms == ExtractUniforms(source)
                block == CbufferHeader \o CbufferMembers(uniforms)
                out == ConvertUniformDeclarations(source, "HLSL")
                body == SubSeq(out, Len(block) + 1, Len(out))
            IN  /\ StartsWith(out, block)
                /\ ~Contains(body, "cbuffer")
                /\ ~Contains(body, "uniform")
                /\ \A k \in 1..Len(uniforms) :
                      ~Occurs(body, <<uniforms[k].type, SP, uniforms[k].name, ";">>)

\* C9: the HLSL text a Transpile call returns starts with the placeholder
\* inverse function if and only if the converted shader text holds the
\* token inverse.
C9_PlaceholderIffInverse ==
    \A t \in Threads :
        (/\ Returned(t, "Transpile") /\ call[t].target = "HLSL"
         /\ WellFormed(call[t].src)) =>
            (StartsWith(ret[t].output, InversePlaceholder)
                <=> Contains(HlslConverted(call[t].src, call[t].stage), "inverse"))

\* the texts the callers of a target hand to its tool
TextsOf(target) ==
    {TextFile(IF target = "HLSL" THEN HlslText(call[u].src, call[u].stage)
              ELSE VulkanText(call[u].src))
       : u \in {v \in Threads : call[v].api = "Transpile" /\ call[v].target = target}}

WrittenKinds(path) ==
    IF path \in {"validate.hlsl", "temp_input.glsl"} THEN {"text"}
    ELSE IF path = "temp_input.spv" THEN {"spv"}
    ELSE IF path = "temp_output.metal" THEN {"metal"}
    ELSE {}

\* C11: over every run of Transpile and TranspileProgram calls the transpiler
\* itself writes only validate.hlsl and temp_input.glsl, the assembler only
\* temp_input.spv and the cross-compiler only temp_output.metal;
\* temp_vulkan.spv, the file the cross-compiler is given, is never written and
\* holds what it held before the calls (nothing, or a file left by something
\* else), so the cross-compiler never reads the SPIR-V assembled from the
\* call's source and a Metal success returns the conversion of the left-over
\* file whatever the source was.
C11_MetalInputNeverWritten ==
    /\ files["temp_vulkan.spv"] \in {Absent, Stale}
    /\ \A p \in Paths : files[p].kind \in WrittenKinds(p) \cup {"absent", "stale"}
    /\ \A t \in Threads :
          /\ \A i \in Events(t, "write") :
                hist[t][i].what \in {"validate.hlsl", "temp_input.glsl"}
          /\ \A i \in ToolRuns(t, "spirv-cross") :
                /\ hist[t][i].read = files["temp_vulkan.spv"]
                /\ hist[t][i].read.kind # "spv"
                /\ hist[t][i].exit = 0 => hist[t][i].read = Stale
          /\ res[t].errorMessage = "Metal transpilation success!" =>
                res[t].output = ReadText(SpirvCross(Stale))
          /\ (Returned(t, "Transpile") /\ call[t].target = "Metal"
              /\ ret[t].success /\ ret[t].output # <<>>) =>
                ret[t].output = ReadText(SpirvCross(Stale))

\* a Metal call that succeeded: its source was written and assembled into
\* temp_input.spv, and the text it returns is the conversion of the left-over
\* temp_vulkan.spv
C11_Witness ==
    /\ Returned(Main, "Transpile")
    /\ call[Main].target = "Metal"
    /\ ret[Main] = MetalSuccess(ReadText(SpirvCross(Stale)))
    /\ files["temp_input.glsl"] = TextFile(VulkanText(call[Main].src))
    /\ files["temp_input.spv"] = Glslang(TextFile(VulkanText(call[Main].src)))
    /\ files["temp_vulkan.spv"] = Stale
    /\ \E i \in ToolRuns(Main, "glslang") : hist[Main][i].exit = 0
    /\ \E i \in ToolRuns(Main, "spirv-cross") :
          hist[Main][i].exit = 0 /\ hist[Main][i].read = Stale

=============================================================================
